---- MODULE Spec2Model ----
(***************************************************************************)
(* A model of the PDU field codec of go-smpp (package pdufield): the field *)
(* values of types.go, the constructor New of body.go and the schema       *)
(* driven decoder List.Decode.  Octets are the integers 0..255, byte       *)
(* slices and strings are sequences of octets.                             *)
(***************************************************************************)
EXTENDS Integers, Sequences, FiniteSets, TLC

VARIABLES
    \* ---- List.Decode: receiver, argument, locals, result
    l,              \* the schema: the List the method is called on
    idx,            \* position of the range loop in l (1-based)
    buf,            \* content of the bytes.Buffer r
    off,            \* read offset of r (octets consumed so far)
    f,              \* the Map being built
    unsuccessCount, numDest, udhLength, smLength, dataCoding, udhiFlag,
    pc,             \* "loop", "done" (returned) or "panic"
    err,            \* the returned error: "none" before the return, then "nil" or "EOF"
    brk,            \* the field at which the loop was left by "break loop", or NoField
    built,          \* how the buffer was produced: "raw", "New", "Part", "DestList", "UnsList"
    orig,           \* the field values that were serialized into buf (round trips)
    \* ---- one pdufield.Variable and the calls made on it
    arr,            \* backing array of v.Data (len(arr) is the capacity)
    dlen,           \* len(v.Data)
    data0,          \* the octets v.Data held when the value was built
    vout,           \* result of the last call
    vop,            \* the last call: "none", "Bytes", "Len", "String"
    vlast,          \* the slice the most recent Bytes() returned, or NoSlice
    vprev,          \* the slice the Bytes() before that one returned, or NoSlice
    calls,          \* number of calls made
    \* ---- concatenation UDH
    upc,            \* "idle", or "start", "built", "checked"
    uargs,          \* the arguments ref, total, part the concatenation UDH was built with
    udh,            \* the UDH under test
    uhow,           \* "none", "concat" (built by the constructor) or "other"
    isc,            \* result of IsConcatenated
    \* ---- segmentation of one long message
    spc,            \* "idle", or "start", "loop", "done"
    smText,         \* the codec of sm.Text: "GSM7", "GSM7Packed", "UCS2", "Raw"
    rawMsg,         \* sm.Text.Encode(), the encoded payload, held as its length n and
                    \* the position k of its escape sequence (RawAt gives the octets)
    maxLen,         \* the part maximum chosen for the codec
    countParts,     \* the number of parts computed
    smRef,          \* the reference number ref drawn for the message
    parti,          \* the loop index i (parts built so far)
    smParts,        \* the parts built, in the order they were built
    \* ---- one session of a Transmitter and the calls made on it
    status,         \* "Connected" or "Closed"
    window,         \* WindowSize of the session, 0 for none
    atomicSeq,      \* the sequence number allocated last
    inflight,       \* the in-flight table: entries [seq, c, i], waiter (c, i) of seq
    wire,           \* the request frames written, in the order of the wire
    answered,       \* positions of wire the server has answered
    rwire,          \* the responses the server wrote, in the order of the wire
    rpos,           \* number of responses the reader has dispatched
    cpc,            \* per call: "check", "seq", "reg", "write", "wait", "done"
    ctotal,         \* per call: its number of requests (1 for Submit)
    cseqs,          \* per call: the sequence numbers allocated, one per request
    cbox,           \* per call and request: what its waiter was resolved with
    cresolved,      \* per call and request: how many times its waiter was resolved
    cres,           \* per call: the responses collected, in request order
    cerr            \* per call: the error returned, or NoErr

decVars == <<l, idx, buf, off, f, unsuccessCount, numDest, udhLength, smLength,
             dataCoding, udhiFlag, pc, err, brk, built, orig>>
varVars == <<arr, dlen, data0, vout, vop, vlast, vprev, calls>>
udhVars == <<upc, uargs, udh, uhow, isc>>
segVars == <<spc, smText, rawMsg, maxLen, countParts, smRef, parti, smParts>>
sesVars == <<status, window, atomicSeq, inflight, wire, answered, rwire, rpos,
             cpc, ctotal, cseqs, cbox, cresolved, cres, cerr>>
auxVars == <<segVars, sesVars>>
vars == <<decVars, varVars, udhVars, auxVars>>

----------------------------------------------------------------------------
(* Bounds of the model *)

\* longest buffer handed to Decode in the raw specification
MaxBuf == 5
\* most entries of a written destination list
MaxDests == 2
\* longest Data of a Variable
MaxVarLen == 3
\* most calls made on one Variable
MaxCalls == 3

----------------------------------------------------------------------------
(* Field names, types.go *)

AddrNPI == "addr_npi"
AddrTON == "addr_ton"
AddressRange == "address_range"
DataCoding == "data_coding"
DestAddrNPI == "dest_addr_npi"
DestAddrTON == "dest_addr_ton"
DestinationAddr == "destination_addr"
DestinationList == "dest_addresses"
ESMClass == "esm_class"
ErrorCode == "error_code"
FinalDate == "final_date"
InterfaceVersion == "interface_version"
MessageID == "message_id"
MessageState == "message_state"
NumberDests == "number_of_dests"
NoUnsuccess == "no_unsuccess"
Password == "password"
PriorityFlag == "priority_flag"
ProtocolID == "protocol_id"
RegisteredDelivery == "registered_delivery"
ReplaceIfPresentFlag == "replace_if_present_flag"
SMDefaultMsgID == "sm_default_msg_id"
SMLength == "sm_length"
ScheduleDeliveryTime == "schedule_delivery_time"
ServiceType == "service_type"
ShortMessage == "short_message"
SourceAddr == "source_addr"
SourceAddrNPI == "source_addr_npi"
SourceAddrTON == "source_addr_ton"
SystemID == "system_id"
SystemType == "system_type"
UDHLength == "gsm_sms_ud.udh.len"
GSMUserData == "gsm_sms_ud.udh"
UnsuccessSme == "unsuccess_sme"
ValidityPeriod == "validity_period"

UDHIEIConcatenatedShortMessage8Bit == 0
UDHIEIConcatenatedShortMessage16Bit == 8
ESMClassUDHIndicator == 64

NoField == "-"

----------------------------------------------------------------------------
(* Generic helpers *)

Min(a, b) == IF a < b THEN a ELSE b

\* all sequences over S of length at most n
SeqsUpTo(S, n) == UNION {[1..k -> S] : k \in 0..n}

RECURSIVE FlattenRange(_, _, _)
\* concatenation of ss[a], ..., ss[b], by halves
FlattenRange(ss, a, b) ==
    IF a > b THEN <<>>
    ELSE IF a = b THEN ss[a]
    ELSE LET mid == (a + b) \div 2
         IN  FlattenRange(ss, a, mid) \o FlattenRange(ss, mid + 1, b)
\* concatenation of a sequence of sequences
Flatten(ss) == FlattenRange(ss, 1, Len(ss))

\* the Map m with key k set to v
Put(m, k, v) == [n \in DOMAIN m \cup {k} |-> IF n = k THEN v ELSE m[n]]

EmptyMap == [n \in {} |-> 0]

\* a nil []byte, as distinct from an empty one
NilData == <<-1>>

----------------------------------------------------------------------------
(* Field values, types.go.  A Fixed holds one octet, the others sequences. *)

Fixed(b) == [kind |-> "Fixed", Data |-> b]
Variable(d) == [kind |-> "Variable", Data |-> d]
Null == [kind |-> "Null"]
SM(d) == [kind |-> "SM", Data |-> d]
UDHIE(iei, len, d) == [IEI |-> iei, IELength |-> len, IEData |-> d]
UDH(ies) == [kind |-> "UDH", IE |-> ies]
DestSme(flag, ton, npi, addr) == [Flag |-> flag, Ton |-> ton, Npi |-> npi, DestAddr |-> addr]
DestSmeList(ds) == [kind |-> "DestSmeList", Data |-> ds]
UnSme(ton, npi, addr, code) == [Ton |-> ton, Npi |-> npi, DestAddr |-> addr, ErrCode |-> code]
UnSmeList(us) == [kind |-> "UnSmeList", Data |-> us]
\* what a call that ends in a run-time panic yields instead of a value
Panicked == [kind |-> "panic"]

\* strconv.Itoa of a non-negative integer, as ASCII digits
RECURSIVE Itoa(_)
Itoa(n) == IF n < 10 THEN <<48 + n>> ELSE Itoa(n \div 10) \o <<48 + (n % 10)>>

\* one lower-case hexadecimal digit
HexDigit(d) == IF d < 10 THEN 48 + d ELSE 87 + d
\* fmt.Sprintf("%02x", b) of an octet
Hex2(b) == <<HexDigit(b \div 16), HexDigit(b % 16)>>
\* fmt.Sprintf("%02x", n) of a non-negative int: at least two digits
RECURSIVE HexPad2(_)
HexPad2(n) == IF n < 256 THEN Hex2(n) ELSE HexPad2(n \div 16) \o <<HexDigit(n % 16)>>

\* strings.Join(parts, sep)
RECURSIVE Join(_, _)
Join(parts, sep) ==
    IF parts = <<>> THEN <<>>
    ELSE IF Len(parts) = 1 THEN parts[1]
    ELSE parts[1] \o sep \o Join(Tail(parts), sep)

FixedBytes(b) == <<b>>
FixedString(b) == Itoa(b)

\* Variable.Bytes with the terminator appended whatever Data ends with
VariableBytesAlways(d) == Append(d, 0)
\* Variable.Bytes: Data itself when it ends with 0x00, else Data and one 0x00
VariableBytes(d) == IF Len(d) > 0 /\ d[Len(d)] = 0 THEN d ELSE Append(d, 0)
VariableLen(d) == Len(VariableBytes(d))
VariableString(d) == IF Len(d) > 0 /\ d[Len(d)] = 0 THEN SubSeq(d, 1, Len(d) - 1) ELSE d

DestSmeBytes(ds) == <<ds.Flag>> \o <<ds.Ton>> \o <<ds.Npi>> \o VariableBytes(ds.DestAddr)
DestSmeString(ds) ==
    Itoa(ds.Flag) \o <<44>> \o Itoa(ds.Ton) \o <<44>> \o Itoa(ds.Npi) \o <<44>>
        \o VariableString(ds.DestAddr)
DestSmeListBytes(dsl) == Flatten([i \in 1..Len(dsl) |-> DestSmeBytes(dsl[i])])
DestSmeListString(dsl) == Flatten([i \in 1..Len(dsl) |-> DestSmeString(dsl[i]) \o <<59>>])

\* binary.BigEndian.Uint32 of the first four octets
Uint32(d) == ((d[1] * 256 + d[2]) * 256 + d[3]) * 256 + d[4]
\* the string of a call that panics
PanicString == <<-2>>
UnSmeBytes(us) == <<us.Ton>> \o <<us.Npi>> \o VariableBytes(us.DestAddr) \o VariableBytes(us.ErrCode)
UnSmeString(us) ==
    IF Len(us.ErrCode) < 4 THEN PanicString
    ELSE Itoa(us.Ton) \o <<44>> \o Itoa(us.Npi) \o <<44>> \o VariableString(us.DestAddr)
            \o <<44>> \o Itoa(Uint32(us.ErrCode))
UnSmeListBytes(usl) == Flatten([i \in 1..Len(usl) |-> UnSmeBytes(usl[i])])
UnSmeListString(usl) ==
    IF \E i \in 1..Len(usl) : Len(usl[i].ErrCode) < 4 THEN PanicString
    ELSE Flatten([i \in 1..Len(usl) |-> UnSmeString(usl[i]) \o <<59>>])

UDHIELen(ie) == 2 + Len(ie.IEData)
UDHIEBytes(ie) == <<ie.IEI>> \o <<ie.IELength>> \o ie.IEData
UDHIEString(ie) ==
    Join(<<Hex2(ie.IEI), Hex2(ie.IELength)>> \o [i \in 1..Len(ie.IEData) |-> Hex2(ie.IEData[i])],
         <<58>>)
RECURSIVE UDHLen(_)
UDHLen(ies) == IF ies = <<>> THEN 0 ELSE UDHIELen(Head(ies)) + UDHLen(Tail(ies))
UDHBytes(ies) == Flatten([i \in 1..Len(ies) |-> UDHIEBytes(ies[i])])
UDHString(ies) ==
    Join(<<HexPad2(UDHLen(ies))>> \o [i \in 1..Len(ies) |-> UDHIEString(ies[i])], <<58>>)

\* the Body interface: Bytes(), Len() and String() of any field value
BodyBytes(v) ==
    CASE v.kind = "Fixed" -> FixedBytes(v.Data)
      [] v.kind = "Variable" -> VariableBytes(v.Data)
      [] v.kind = "Null" -> <<>>
      [] v.kind = "SM" -> v.Data
      [] v.kind = "UDH" -> UDHBytes(v.IE)
      [] v.kind = "DestSmeList" -> DestSmeListBytes(v.Data)
      [] v.kind = "UnSmeList" -> UnSmeListBytes(v.Data)
BodyLen(v) ==
    CASE v.kind = "Fixed" -> 1
      [] v.kind = "Null" -> 0
      [] v.kind = "UDH" -> UDHLen(v.IE)
      [] OTHER -> Len(BodyBytes(v))
BodyString(v) ==
    CASE v.kind = "Fixed" -> FixedString(v.Data)
      [] v.kind = "Variable" -> VariableString(v.Data)
      [] v.kind = "Null" -> <<>>
      [] v.kind = "SM" -> v.Data
      [] v.kind = "UDH" -> UDHString(v.IE)
      [] v.kind = "DestSmeList" -> DestSmeListString(v.Data)
      [] v.kind = "UnSmeList" -> UnSmeListString(v.Data)

----------------------------------------------------------------------------
(* Concatenated short messages, types.go *)

\* byte(n) of a non-negative int
Byte(n) == n % 256

\* the element with the reference always written as one octet
NewIEConcatenatedShortMessage8BitOnly(ref, total, part) ==
    UDHIE(UDHIEIConcatenatedShortMessage8Bit, 3, <<Byte(ref), Byte(total), Byte(part)>>)
NewIEConcatenatedShortMessage(ref, total, part) ==
    IF ref > 255
    THEN UDHIE(UDHIEIConcatenatedShortMessage16Bit, 4,
               <<Byte(ref \div 256), Byte(ref % 256), Byte(total), Byte(part)>>)
    ELSE UDHIE(UDHIEIConcatenatedShortMessage8Bit, 3,
               <<Byte(ref % 256), Byte(total), Byte(part)>>)

NewUDHConcatenatedShortMessage(ref, total, part) ==
    UDH(<<NewIEConcatenatedShortMessage(ref, total, part)>>)

NotConcatenated == [panic |-> FALSE, concatenated |-> FALSE, ref |-> 0, total |-> 1, part |-> 1]
IndexPanic == [panic |-> TRUE, concatenated |-> FALSE, ref |-> 0, total |-> 0, part |-> 0]

RECURSIVE IsConcatenatedLowRef(_)
\* IsConcatenated reading only the low octet of a 16-bit reference
IsConcatenatedLowRef(ies) ==
    IF ies = <<>> THEN NotConcatenated
    ELSE LET ie == Head(ies)
             d == ie.IEData
         IN  IF ie.IEI = UDHIEIConcatenatedShortMessage8Bit /\ ie.IELength = 3
             THEN IF Len(d) < 3 THEN IndexPanic
                  ELSE [panic |-> FALSE, concatenated |-> TRUE,
                        ref |-> d[1], total |-> d[2], part |-> d[3]]
             ELSE IF ie.IEI = UDHIEIConcatenatedShortMessage16Bit /\ ie.IELength = 4
             THEN IF Len(d) < 4 THEN IndexPanic
                  ELSE [panic |-> FALSE, concatenated |-> TRUE,
                        ref |-> d[2], total |-> d[3], part |-> d[4]]
             ELSE IsConcatenatedLowRef(Tail(ies))

RECURSIVE IsConcatenated(_)
\* UDH.IsConcatenated on the elements ies: the first concatenation element decides;
\* an element whose IEData is shorter than its kind needs is an index out of range
IsConcatenated(ies) ==
    IF ies = <<>> THEN NotConcatenated
    ELSE LET ie == Head(ies)
             d == ie.IEData
         IN  IF ie.IEI = UDHIEIConcatenatedShortMessage8Bit /\ ie.IELength = 3
             THEN IF Len(d) < 3 THEN IndexPanic
                  ELSE [panic |-> FALSE, concatenated |-> TRUE,
                        ref |-> d[1], total |-> d[2], part |-> d[3]]
             ELSE IF ie.IEI = UDHIEIConcatenatedShortMessage16Bit /\ ie.IELength = 4
             THEN IF Len(d) < 4 THEN IndexPanic
                  ELSE [panic |-> FALSE, concatenated |-> TRUE,
                        ref |-> d[1] * 256 + d[2], total |-> d[3], part |-> d[4]]
             ELSE IsConcatenated(Tail(ies))

----------------------------------------------------------------------------
(* pdufield.New, body.go *)

FixedNames ==
    {AddrNPI, AddrTON, DataCoding, DestAddrNPI, DestAddrTON, ESMClass, ErrorCode,
     InterfaceVersion, MessageState, NumberDests, NoUnsuccess, PriorityFlag, ProtocolID,
     RegisteredDelivery, ReplaceIfPresentFlag, SMDefaultMsgID, SMLength, SourceAddrNPI,
     SourceAddrTON}

VariableNames ==
    {AddressRange, DestinationAddr, DestinationList, FinalDate, MessageID, Password,
     ScheduleDeliveryTime, ServiceType, SourceAddr, SystemID, SystemType, UnsuccessSme,
     ValidityPeriod}

RECURSIVE NewUDHLoop(_, _, _)
\* the loop of New's GSMUserData case from index i (0-based), udh built so far;
\* Panicked when an index runs past the data (the slice's capacity is its length)
NewUDHLoop(d, i, acc) ==
    IF ~(i < Len(d)) THEN UDH(acc)
    ELSE IF i + 1 >= Len(d) THEN Panicked
    ELSE LET dataLength == d[i + 2]
         IN  IF i + 2 + dataLength > Len(d) THEN Panicked
             ELSE NewUDHLoop(d, i + 2 + dataLength,
                             Append(acc, UDHIE(d[i + 1], d[i + 2],
                                               SubSeq(d, i + 3, i + 2 + dataLength))))

New(n, d) ==
    IF n \in FixedNames THEN
        IF d = NilData THEN Fixed(0)
        ELSE IF d = <<>> THEN Panicked
        ELSE Fixed(d[1])
    ELSE IF n \in VariableNames THEN
        IF d = NilData THEN Variable(<<>>) ELSE Variable(d)
    ELSE IF n = UDHLength THEN
        IF d = NilData \/ d = <<>> THEN Null ELSE Fixed(d[1])
    ELSE IF n = ShortMessage THEN
        IF d = NilData THEN SM(<<>>) ELSE SM(d)
    ELSE IF n = GSMUserData THEN
        IF d # NilData /\ Len(d) > 2 THEN NewUDHLoop(d, 0, <<>>) ELSE Null
    ELSE [kind |-> "nil"]

----------------------------------------------------------------------------
(* Reads of a bytes.Buffer with content b and read offset o *)

\* ReadByte: the next octet, or io.EOF when none is left
ReadByte(b, o) ==
    IF o < Len(b) THEN [eof |-> FALSE, b |-> b[o + 1], off |-> o + 1]
    ELSE [eof |-> TRUE, b |-> 0, off |-> o]

\* ReadBytes(delim): the octets up to and including the first delim; when there is
\* none, everything that is left, with io.EOF
ReadBytes(b, o, delim) ==
    IF \E i \in (o + 1)..Len(b) : b[i] = delim
    THEN LET i == CHOOSE i \in (o + 1)..Len(b) :
                      b[i] = delim /\ \A j \in (o + 1)..(i - 1) : b[j] # delim
         IN  [eof |-> FALSE, data |-> SubSeq(b, o + 1, i), off |-> i]
    ELSE [eof |-> TRUE, data |-> SubSeq(b, o + 1, Len(b)), off |-> Len(b)]

\* Next(n): the next n octets, or those that are left when fewer; a negative n is a
\* slice bound out of range, a run-time panic
Next(b, o, n) ==
    IF n < 0 THEN [panic |-> TRUE, data |-> <<>>, off |-> o]
    ELSE LET m == Min(n, Len(b) - o)
         IN  [panic |-> FALSE, data |-> SubSeq(b, o + 1, o + m), off |-> o + m]

----------------------------------------------------------------------------
(* Text decoders of package pdutext, written from the specification: their  *)
(* code is not among the source files.  Each yields UTF-8 octets.           *)

DefaultType == 0
Latin1Type == 3
ISO88595Type == 6
UCS2Type == 8

\* the UTF-8 octets of one code point
UTF8(cp) ==
    IF cp < 128 THEN <<cp>>
    ELSE IF cp < 2048 THEN <<192 + (cp \div 64), 128 + (cp % 64)>>
    ELSE IF cp < 65536 THEN <<224 + (cp \div 4096), 128 + ((cp \div 64) % 64), 128 + (cp % 64)>>
    ELSE <<240 + (cp \div 262144), 128 + ((cp \div 4096) % 64), 128 + ((cp \div 64) % 64),
           128 + (cp % 64)>>

\* GSM 03.38 default alphabet: the code point of each septet 0x00..0x7F
GSM7Table ==
    <<
       64, 163, 36, 165, 232, 233, 249, 236, 242, 199, 10, 216, 248, 13, 197, 229,
       916, 95, 934, 915, 923, 937, 928, 936, 931, 920, 926, 27, 198, 230, 223, 201,
       32, 33, 34, 35, 164, 37, 38, 39, 40, 41, 42, 43, 44, 45, 46, 47,
       48, 49, 50, 51, 52, 53, 54, 55, 56, 57, 58, 59, 60, 61, 62, 63,
       161, 65, 66, 67, 68, 69, 70, 71, 72, 73, 74, 75, 76, 77, 78, 79,
       80, 81, 82, 83, 84, 85, 86, 87, 88, 89, 90, 196, 214, 209, 220, 167,
       191, 97, 98, 99, 100, 101, 102, 103, 104, 105, 106, 107, 108, 109, 110, 111,
       112, 113, 114, 115, 116, 117, 118, 119, 120, 121, 122, 228, 246, 241, 252, 224
    >>

\* GSM 03.38 extension table: the code point of the septet that follows 0x1B
GSM7Extension(b) ==
    CASE b = 10 -> 12 [] b = 20 -> 94 [] b = 40 -> 123 [] b = 41 -> 125 [] b = 47 -> 92
      [] b = 60 -> 91 [] b = 61 -> 126 [] b = 62 -> 93 [] b = 64 -> 124 [] b = 101 -> 8364
      [] OTHER -> -1

\* GSM7.Decode: each septet to its character, 0x1B with the next septet to the
\* extension character; a 0x1B that no extension septet follows is dropped (so is
\* a lone trailing 0x1B), an octet outside the table is kept as it is
GSM7Decode(m) ==
    Flatten([i \in 1..Len(m) |->
        IF m[i] = 27
        THEN IF i < Len(m) /\ GSM7Extension(m[i + 1]) >= 0
             THEN UTF8(GSM7Extension(m[i + 1]))
             ELSE <<>>
        ELSE IF i > 1 /\ m[i - 1] = 27 /\ GSM7Extension(m[i]) >= 0 THEN <<>>
        ELSE IF m[i] < 128 THEN UTF8(GSM7Table[m[i] + 1])
        ELSE <<m[i]>>])

\* Latin1.Decode: the identity on 0x00..0xFF
Latin1Decode(m) == m

\* UCS2.Decode: big-endian UTF-16 code units to UTF-8, a surrogate pair to one
\* code point, a surrogate without its pair to U+FFFD; an octet left over at the
\* end is dropped
UCS2Decode(m) ==
    LET n == Len(m) \div 2
        u == [k \in 1..n |-> m[2 * k - 1] * 256 + m[2 * k]]
        High(x) == x >= 55296 /\ x < 56320
        Low(x) == x >= 56320 /\ x < 57344
    IN  Flatten([k \in 1..n |->
            IF High(u[k])
            THEN IF k < n /\ Low(u[k + 1])
                 THEN UTF8(65536 + (u[k] - 55296) * 1024 + (u[k + 1] - 56320))
                 ELSE UTF8(65533)
            ELSE IF Low(u[k])
            THEN IF k > 1 /\ High(u[k - 1]) THEN <<>> ELSE UTF8(65533)
            ELSE UTF8(u[k])])

\* ISO88595.Decode: ISO-8859-5 to UTF-8 (0xA1..0xFF are the Cyrillic block)
ISO88595Decode(m) ==
    Flatten([i \in 1..Len(m) |-> UTF8(IF m[i] < 161 \/ m[i] = 173 THEN m[i] ELSE m[i] + 864)])

\* the switch on dataCoding of Decode's short_message case with no case at all
DecodeTextNone(dc, msg) == msg
\* the switch on dataCoding of Decode's short_message case
DecodeText(dc, msg) ==
    CASE dc = DefaultType -> GSM7Decode(msg)
      [] dc = Latin1Type -> Latin1Decode(msg)
      [] dc = UCS2Type -> UCS2Decode(msg)
      [] dc = ISO88595Type -> ISO88595Decode(msg)
      [] OTHER -> msg

----------------------------------------------------------------------------
(* List.Decode: one action for each case of the switch, taken once for each *)
(* field of the schema, and one for the return at the end of the loop.      *)

\* the names of the first case: C-strings
DecodeCStringNames ==
    {AddressRange, DestinationAddr, ErrorCode, FinalDate, MessageID, MessageState, Password,
     ScheduleDeliveryTime, ServiceType, SourceAddr, SystemID, SystemType, ValidityPeriod}

\* the names of the second case: single octets
DecodeFixedNames ==
    {AddrNPI, AddrTON, DataCoding, DestAddrNPI, DestAddrTON, ESMClass, InterfaceVersion,
     NumberDests, NoUnsuccess, PriorityFlag, ProtocolID, RegisteredDelivery,
     ReplaceIfPresentFlag, SMDefaultMsgID, SourceAddrNPI, SourceAddrTON, SMLength}

locals == <<unsuccessCount, numDest, udhLength, smLength, dataCoding, udhiFlag>>
given == <<l, buf, built, orig>>

\* the UDHI test with the mask one bit too low
UDHIFlagBit5(b) == (b \div 32) % 2 = 1
\* mask := byte(1 << 6); udhiFlag = mask == b&mask
UDHIFlag(b) == (b \div ESMClassUDHIndicator) % 2 = 1

\* "break loop" taken as an error return
BreakLoopError(m) == [f |-> EmptyMap, err |-> "EOF"]
\* "break loop" on io.EOF: the loop is left and Decode ends with "return f, nil"
BreakLoopResult(m) == [f |-> m, err |-> "nil"]

\* the short message length with the header never subtracted
SMReadLengthPlain(udhi, sm, ul) == sm
\* the short message length with the length octet of the header forgotten
SMReadLengthNoOctet(udhi, sm, ul) == IF udhi THEN sm - ul ELSE sm
\* if udhiFlag { smLength -= udhLength + 1 }
SMReadLength(udhi, sm, ul) == IF udhi THEN sm - (ul + 1) ELSE sm

\* f[k] = v with the buffer read up to o, and on to the next field
Store(k, v, o) ==
    /\ f' = Put(f, k, v)
    /\ off' = o
    /\ idx' = idx + 1
    /\ UNCHANGED <<pc, err, brk, auxVars>>

\* break loop, with the buffer read up to o
BreakLoop(o) ==
    /\ f' = BreakLoopResult(f).f
    /\ err' = BreakLoopResult(f).err
    /\ off' = o
    /\ pc' = "done"
    /\ brk' = l[idx]
    /\ UNCHANGED idx

AtField(S) == pc = "loop" /\ idx <= Len(l) /\ l[idx] \in S

DecodeCString ==
    /\ AtField(DecodeCStringNames)
    /\ LET rd == ReadBytes(buf, off, 0)
       IN  IF rd.eof THEN BreakLoop(rd.off)
           ELSE Store(l[idx], Variable(rd.data), rd.off)
    /\ UNCHANGED <<locals, given, varVars, udhVars, auxVars>>

DecodeFixed ==
    /\ AtField(DecodeFixedNames)
    /\ LET rd == ReadByte(buf, off)
           k == l[idx]
       IN  IF rd.eof THEN BreakLoop(rd.off) /\ UNCHANGED locals
           ELSE /\ Store(k, Fixed(rd.b), rd.off)
                /\ dataCoding' = IF k = DataCoding THEN rd.b ELSE dataCoding
                /\ unsuccessCount' = IF k = NoUnsuccess THEN rd.b ELSE unsuccessCount
                /\ numDest' = IF k = NumberDests THEN rd.b ELSE numDest
                /\ smLength' = IF k = SMLength THEN rd.b ELSE smLength
                /\ udhiFlag' = IF k = ESMClass THEN UDHIFlag(rd.b) ELSE udhiFlag
                /\ UNCHANGED udhLength
    /\ UNCHANGED <<given, varVars, udhVars, auxVars>>

DecodeUDHLength ==
    /\ AtField({UDHLength})
    /\ IF ~udhiFlag THEN Store(UDHLength, Null, off) /\ UNCHANGED locals
       ELSE LET rd == ReadByte(buf, off)
            IN  IF rd.eof THEN BreakLoop(rd.off) /\ UNCHANGED locals
                ELSE /\ Store(UDHLength, Fixed(rd.b), rd.off)
                     /\ udhLength' = rd.b
                     /\ UNCHANGED <<unsuccessCount, numDest, smLength, dataCoding, udhiFlag, auxVars>>
    /\ UNCHANGED <<given, varVars, udhVars, auxVars>>

RECURSIVE UDHLoopFixedStep(_, _, _, _)
\* the loop counting two octets for each element, whatever its IELength
UDHLoopFixedStep(b, o, i, acc) ==
    IF ~(i > 0) THEN [brk |-> FALSE, off |-> o, ie |-> acc]
    ELSE LET r1 == ReadByte(b, o)
             r2 == ReadByte(b, r1.off)
             nx == Next(b, r2.off, r2.b)
         IN  IF r1.eof THEN [brk |-> TRUE, off |-> r1.off, ie |-> acc]
             ELSE IF r2.eof THEN [brk |-> TRUE, off |-> r2.off, ie |-> acc]
             ELSE IF Len(nx.data) # r2.b
                  THEN [brk |-> TRUE, off |-> nx.off,
                        ie |-> Append(acc, UDHIE(r1.b, r2.b, nx.data))]
             ELSE UDHLoopFixedStep(b, nx.off, i - 2, Append(acc, UDHIE(r1.b, r2.b, nx.data)))

RECURSIVE UDHLoop(_, _, _, _)
\* for i := udhLength; i > 0; i -= l + 2 { IEI, IELength, IEData }, from offset o
\* with the elements acc read so far
UDHLoop(b, o, i, acc) ==
    IF ~(i > 0) THEN [brk |-> FALSE, off |-> o, ie |-> acc]
    ELSE LET r1 == ReadByte(b, o)
             r2 == ReadByte(b, r1.off)
             nx == Next(b, r2.off, r2.b)
         IN  IF r1.eof THEN [brk |-> TRUE, off |-> r1.off, ie |-> acc]
             ELSE IF r2.eof THEN [brk |-> TRUE, off |-> r2.off, ie |-> acc]
             ELSE IF Len(nx.data) # r2.b
                  THEN [brk |-> TRUE, off |-> nx.off,
                        ie |-> Append(acc, UDHIE(r1.b, r2.b, nx.data))]
             ELSE UDHLoop(b, nx.off, i - (r2.b + 2), Append(acc, UDHIE(r1.b, r2.b, nx.data)))

DecodeGSMUserData ==
    /\ AtField({GSMUserData})
    /\ IF ~udhiFlag THEN Store(GSMUserData, Null, off)
       ELSE LET res == UDHLoop(buf, off, udhLength, <<>>)
            IN  IF res.brk THEN BreakLoop(res.off)
                ELSE Store(GSMUserData, UDH(res.ie), res.off)
    /\ UNCHANGED <<locals, given, varVars, udhVars, auxVars>>

RECURSIVE DestLoop(_, _, _, _)
\* for i := 0; i < numDest; i++ { flag, ton, npi, address }: n entries still to
\* read from offset o
DestLoop(b, o, n, acc) ==
    IF n <= 0 THEN [brk |-> FALSE, off |-> o, list |-> acc]
    ELSE LET r1 == ReadByte(b, o)
             r2 == ReadByte(b, r1.off)
             r3 == ReadByte(b, r2.off)
             r4 == ReadBytes(b, r3.off, 0)
         IN  IF r1.eof THEN [brk |-> TRUE, off |-> r1.off, list |-> acc]
             ELSE IF r2.eof THEN [brk |-> TRUE, off |-> r2.off, list |-> acc]
             ELSE IF r3.eof THEN [brk |-> TRUE, off |-> r3.off, list |-> acc]
             ELSE IF r4.eof THEN [brk |-> TRUE, off |-> r4.off, list |-> acc]
             ELSE DestLoop(b, r4.off, n - 1, Append(acc, DestSme(r1.b, r2.b, r3.b, r4.data)))

DecodeDestinationList ==
    /\ AtField({DestinationList})
    /\ LET res == DestLoop(buf, off, numDest, <<>>)
       IN  IF res.brk THEN BreakLoop(res.off)
           ELSE Store(DestinationList, DestSmeList(res.list), res.off)
    /\ UNCHANGED <<locals, given, varVars, udhVars, auxVars>>

RECURSIVE UnsuccessLoop(_, _, _, _)
\* for i := 0; i < unsuccessCount; i++ { ton, npi, address, r.Next(4) }
UnsuccessLoop(b, o, n, acc) ==
    IF n <= 0 THEN [brk |-> FALSE, off |-> o, list |-> acc]
    ELSE LET r1 == ReadByte(b, o)
             r2 == ReadByte(b, r1.off)
             r3 == ReadBytes(b, r2.off, 0)
             nx == Next(b, r3.off, 4)
         IN  IF r1.eof THEN [brk |-> TRUE, off |-> r1.off, list |-> acc]
             ELSE IF r2.eof THEN [brk |-> TRUE, off |-> r2.off, list |-> acc]
             ELSE IF r3.eof THEN [brk |-> TRUE, off |-> r3.off, list |-> acc]
             ELSE UnsuccessLoop(b, nx.off, n - 1, Append(acc, UnSme(r1.b, r2.b, r3.data, nx.data)))

DecodeUnsuccessSme ==
    /\ AtField({UnsuccessSme})
    /\ LET res == UnsuccessLoop(buf, off, unsuccessCount, <<>>)
       IN  IF res.brk THEN BreakLoop(res.off)
           ELSE Store(UnsuccessSme, UnSmeList(res.list), res.off)
    /\ UNCHANGED <<locals, given, varVars, udhVars, auxVars>>

DecodeShortMessage ==
    /\ AtField({ShortMessage})
    /\ LET n == SMReadLength(udhiFlag, smLength, udhLength)
           nx == Next(buf, off, n)
       IN  /\ smLength' = n
           /\ IF nx.panic
              THEN pc' = "panic" /\ UNCHANGED <<f, off, idx, err, brk, auxVars>>
              ELSE Store(ShortMessage, SM(DecodeText(dataCoding, nx.data)), nx.off)
    /\ UNCHANGED <<unsuccessCount, numDest, udhLength, dataCoding, udhiFlag, auxVars>>
    /\ UNCHANGED <<given, varVars, udhVars, auxVars>>

\* the loop has gone through the schema: return f, nil
DecodeReturn ==
    /\ pc = "loop" /\ idx > Len(l)
    /\ pc' = "done"
    /\ err' = "nil"
    /\ UNCHANGED <<f, off, idx, brk, locals, given, varVars, udhVars, auxVars>>

DecodeNext ==
    \/ DecodeCString
    \/ DecodeFixed
    \/ DecodeUDHLength
    \/ DecodeGSMUserData
    \/ DecodeDestinationList
    \/ DecodeUnsuccessSme
    \/ DecodeShortMessage
    \/ DecodeReturn

\* the state of Decode on entry, whatever the schema and the buffer are
DecodeEntry ==
    /\ idx = 1 /\ off = 0 /\ f = EmptyMap
    /\ unsuccessCount = 0 /\ numDest = 0 /\ udhLength = 0 /\ smLength = 0
    /\ dataCoding = 0 /\ udhiFlag = FALSE
    /\ pc = "loop" /\ err = "none" /\ brk = NoField

\* no Variable and no UDH under test
NoSlice == [view |-> FALSE, n |-> -1, own |-> <<>>]
VarIdle ==
    /\ arr = <<>> /\ dlen = 0 /\ data0 = <<>> /\ vout = <<>> /\ vop = "none"
    /\ vlast = NoSlice /\ vprev = NoSlice /\ calls = 0
\* no Decode in progress
DecodeIdle ==
    /\ l = <<>> /\ idx = 1 /\ buf = <<>> /\ off = 0 /\ f = EmptyMap
    /\ unsuccessCount = 0 /\ numDest = 0 /\ udhLength = 0 /\ smLength = 0
    /\ dataCoding = 0 /\ udhiFlag = FALSE
    /\ pc = "idle" /\ err = "none" /\ brk = NoField
    /\ built = "none" /\ orig = EmptyMap
UdhIdle == upc = "idle" /\ udh = UDH(<<>>) /\ uhow = "none" /\ isc = NotConcatenated
\* no message being segmented
SegIdle ==
    /\ spc = "idle" /\ smText = "Raw" /\ rawMsg = [n |-> 0, k |-> 0] /\ maxLen = 0 /\ countParts = 0
    /\ smRef = 0 /\ parti = 0 /\ smParts = <<>>
\* no session
SesIdle ==
    /\ status = "Closed" /\ window = 0 /\ atomicSeq = 0 /\ inflight = {} /\ wire = <<>>
    /\ answered = {} /\ rwire = <<>> /\ rpos = 0
    /\ cpc = <<>> /\ ctotal = <<>> /\ cseqs = <<>> /\ cbox = <<>>
    /\ cresolved = <<>> /\ cres = <<>> /\ cerr = <<>>
AuxIdle == SegIdle /\ SesIdle

----------------------------------------------------------------------------
(* Specification Spec: Decode of any schema of RawSchemas on any buffer of  *)
(* at most MaxBuf octets                                                     *)

RawOctets == {0, 1, 2, 3, 64}

RawSchemas ==
    { <<ESMClass, SMLength, UDHLength, GSMUserData, ShortMessage>>,
      <<SMLength, UDHLength, GSMUserData, ShortMessage>>,
      <<DataCoding, SMLength, ShortMessage, ServiceType>>,
      <<MessageID, NumberDests, DestinationList>>,
      <<MessageID, NoUnsuccess, UnsuccessSme>>,
      <<MessageID, FinalDate, MessageState, ErrorCode>> }

InitRaw ==
    /\ l \in RawSchemas
    /\ buf \in SeqsUpTo(RawOctets, MaxBuf)
    /\ built = "raw" /\ orig = EmptyMap /\ uargs = <<0, 0, 0>>
    /\ DecodeEntry /\ VarIdle /\ UdhIdle /\ AuxIdle

Spec == InitRaw /\ [][DecodeNext]_vars

----------------------------------------------------------------------------
(* Properties of Decode, stated on what it has stored in the Map *)

\* an esm_class with bit 6 set has been parsed
ParsedUDHI == ESMClass \in DOMAIN f /\ (f[ESMClass].Data \div 64) % 2 = 1
\* gsm_sms_ud.udh.len has been parsed as an octet
ParsedUDHLength == UDHLength \in DOMAIN f /\ f[UDHLength].kind = "Fixed"
\* Decode is about to handle field k of the schema
Handling(k) == pc = "loop" /\ idx <= Len(l) /\ l[idx] = k

\* C2: with sm_length parsed as N and enough octets in the buffer, short_message
\* consumes exactly N octets when UDHI is clear and exactly N - (U + 1) octets
\* when UDHI is set and gsm_sms_ud.udh.len was parsed as U (a count of octets:
\* N >= U + 1), no octet more, and is stored as an SM value.
C2_ShortMessageLength ==
    [][ (Handling(ShortMessage) /\ SMLength \in DOMAIN f /\ (ParsedUDHI => ParsedUDHLength))
        => LET N == f[SMLength].Data
               want == IF ParsedUDHI THEN N - (f[UDHLength].Data + 1) ELSE N
           IN  (want >= 0 /\ Len(buf) - off >= want)
               => /\ off' = off + want
                  /\ ShortMessage \in DOMAIN f'
                  /\ f'[ShortMessage].kind = "SM"
                  /\ pc' = "loop" ]_vars

\* C2 witness: Decode has returned a short message of one octet read with UDHI set,
\* sm_length N = 2 and a header length U = 0
C2_Witness ==
    /\ pc = "done" /\ brk = NoField
    /\ ParsedUDHI /\ ParsedUDHLength
    /\ SMLength \in DOMAIN f /\ f[SMLength].Data = f[UDHLength].Data + 2
    /\ ShortMessage \in DOMAIN f /\ Len(f[ShortMessage].Data) >= 1
    /\ off = 4

\* C3: with UDHI set and the header length parsed as U, and U octets or more in
\* the buffer, decoding gsm_sms_ud.udh consumes exactly U octets, whatever they
\* hold; what follows them is left for short_message.
C3_UDHConsumesExactlyU ==
    [][ (Handling(GSMUserData) /\ ParsedUDHI /\ ParsedUDHLength
            /\ Len(buf) - off >= f[UDHLength].Data)
        => off' = off + f[UDHLength].Data ]_vars

C9_UDHIGating ==
    /\ [][ ((Handling(UDHLength) \/ Handling(GSMUserData)) /\ ~ParsedUDHI)
           => off' = off /\ f' = Put(f, l[idx], Null) /\ pc' = "loop" ]_vars
    /\ [][ (Handling(UDHLength) /\ ParsedUDHI /\ off < Len(buf))
           => off' = off + 1 /\ f' = Put(f, UDHLength, Fixed(buf[off + 1])) ]_vars

\* C9 witness: after an esm_class of 0x40 the header length octet 2 was read as
\* the third octet of the buffer and stored as a Fixed value
C9_Witness ==
    /\ ParsedUDHI /\ ParsedUDHLength
    /\ f[UDHLength].Data = 2 /\ buf[3] = 2
    /\ GSMUserData \notin DOMAIN f /\ off = 3

\* C17: short_message is stored after automatic text decoding only when a
\* data_coding field was parsed before it: then the stored value is the result
\* of the decoder its value selects (GSM7 for 0x00, Latin-1 for 0x03, ISO-8859-5
\* for 0x06, UCS-2 for 0x08, the octets read for every other value); when no
\* data_coding was parsed the stored short_message is exactly the octets read.
C17_AutomaticDecoding ==
    [][ (Handling(ShortMessage) /\ ShortMessage \in DOMAIN f')
        => LET read == SubSeq(buf, off + 1, off')
           IN  f'[ShortMessage].Data =
                  IF DataCoding \in DOMAIN f
                  THEN CASE f[DataCoding].Data = 0 -> GSM7Decode(read)
                         [] f[DataCoding].Data = 3 -> Latin1Decode(read)
                         [] f[DataCoding].Data = 6 -> ISO88595Decode(read)
                         [] f[DataCoding].Data = 8 -> UCS2Decode(read)
                         [] OTHER -> read
                  ELSE read ]_vars

\* C18: parsing never crashes: Decode ends with a map or an error and never
\* with a run-time panic, whatever the schema and the octets are (the length
\* it computes for short_message is never negative), and New(GSMUserData, data)
\* returns a value without a run-time panic for every octet sequence.
C18_NeverPanics ==
    /\ pc # "panic"
    /\ Handling(ShortMessage) => SMReadLength(udhiFlag, smLength, udhLength) >= 0
    /\ New(GSMUserData, buf) # Panicked

----------------------------------------------------------------------------
(* Specification SpecRoundTrip: field values are serialized in schema order  *)
(* and the octets handed to Decode with the same schema.  The values are     *)
(* built by pdufield.New ("New"), are one part of a concatenated message     *)
(* ("Part") or are a written destination list ("DestList").                  *)

MaxConcatenatedShortMessageLenEncoded == 133
MaxGSM7ConcatenatedShortMessageLenEncoded == 152
MaxUCS2ConcatenatedShortMessageLenEncoded == 132

SetOf(q) == {q[i] : i \in 1..Len(q)}

\* the octets of the values m of schema q written in schema order
Serialize(q, m) == Flatten([i \in 1..Len(q) |-> BodyBytes(m[q[i]])])

NewSchemas ==
    { <<MessageID, FinalDate, MessageState, ErrorCode>>,
      <<ESMClass, SMLength, UDHLength, GSMUserData, ShortMessage>>,
      <<SystemID, Password, InterfaceVersion>>,
      <<NumberDests, DestinationList>>,
      <<NoUnsuccess, UnsuccessSme>> }

\* the data New is called with, for each name
NewData(n) ==
    IF n \in FixedNames THEN {NilData, <<0>>, <<1>>, <<2>>, <<5>>, <<64>>}
    ELSE IF n = UDHLength THEN {NilData, <<>>, <<3>>}
    ELSE IF n = GSMUserData THEN {NilData, <<>>, <<0, 1, 7>>}
    ELSE IF n = ShortMessage THEN {NilData, <<>>, <<65>>, <<65, 66>>}
    ELSE IF n = DestinationList THEN {NilData, <<1, 0, 0, 65, 0>>}
    ELSE IF n = UnsuccessSme THEN {NilData, <<0, 0, 65, 0, 0, 0, 0, 17, 0>>}
    ELSE {NilData, <<>>, <<65>>, <<65, 0>>, <<49, 51>>}

\* the values New returns for the i-th name of schema q (a schema has at most
\* five names; a position past its end has the one value Null)
NewValues(q, i) ==
    IF i > Len(q) THEN {Null}
    ELSE {New(q[i], d) : d \in NewData(q[i])} \ {Panicked}

InitNew ==
    /\ l \in NewSchemas
    /\ \E v1 \in NewValues(l, 1), v2 \in NewValues(l, 2), v3 \in NewValues(l, 3),
          v4 \in NewValues(l, 4), v5 \in NewValues(l, 5) :
          orig = [n \in SetOf(l) |->
                    LET i == CHOOSE i \in 1..Len(l) : l[i] = n
                    IN  <<v1, v2, v3, v4, v5>>[i]]
    /\ buf = Serialize(l, orig)
    /\ built = "New" /\ uargs = <<0, 0, 0>>

\* one part of a concatenated message, in the field order of submit_sm
PartSchema == <<ESMClass, DataCoding, SMLength, UDHLength, GSMUserData, ShortMessage>>

PartRefs == {0, 255, 256, 65535}
PartCounts == {1, 2, 255}
PartCodings == {0, 2, 3, 8}
PartOctets == {0, 27, 65, 101}
PartPayloads ==
    SeqsUpTo(PartOctets, 2)
        \cup {[i \in 1..n |-> 65] : n \in {MaxUCS2ConcatenatedShortMessageLenEncoded,
                                            MaxConcatenatedShortMessageLenEncoded,
                                            MaxGSM7ConcatenatedShortMessageLenEncoded}}

\* the fields of part `part` of `total` with reference ref, payload and coding dc
PartFields(ref, total, part, payload, dc) ==
    LET u == NewUDHConcatenatedShortMessage(ref, total, part)
    IN  [n \in SetOf(PartSchema) |->
            CASE n = ESMClass -> Fixed(ESMClassUDHIndicator)
              [] n = DataCoding -> Fixed(dc)
              [] n = SMLength -> Fixed(Byte(Len(payload) + UDHLen(u.IE) + 1))
              [] n = UDHLength -> Fixed(Byte(UDHLen(u.IE)))
              [] n = GSMUserData -> u
              [] n = ShortMessage -> SM(payload)]

InitPart ==
    /\ l = PartSchema
    /\ \E ref \in PartRefs, total \in PartCounts, part \in PartCounts,
          payload \in PartPayloads, dc \in PartCodings :
          /\ orig = PartFields(ref, total, part, payload, dc)
          /\ uargs = <<ref, total, part>>
    /\ buf = Serialize(l, orig)
    /\ built = "Part"

\* a destination list as it is written in submit_multi: an SME address is
\* flag 0x01, TON, NPI and the address, a distribution list is flag 0x02 and its
\* name; both strings end with 0x00
DestFlagSME == 1
DestFlagDL == 2
DestEntryWire(e) ==
    IF e.Flag = DestFlagDL THEN <<e.Flag>> \o e.DestAddr \o <<0>>
    ELSE <<e.Flag, e.Ton, e.Npi>> \o e.DestAddr \o <<0>>
DestListWire(es) == Flatten([i \in 1..Len(es) |-> DestEntryWire(es[i])])

DestEntries ==
    {DestSme(DestFlagSME, ton, 0, a) : ton \in {0, 1}, a \in {<<49>>, <<49, 50>>}}
        \cup {DestSme(DestFlagDL, 0, 0, a) : a \in {<<65>>, <<65, 66>>, <<65, 66, 67>>}}

InitDestList ==
    /\ l = <<NumberDests, DestinationList>>
    /\ \E es \in SeqsUpTo(DestEntries, MaxDests) :
          /\ orig = [n \in SetOf(l) |->
                       IF n = NumberDests THEN Fixed(Len(es)) ELSE DestSmeList(es)]
          /\ buf = <<Len(es)>> \o DestListWire(es)
    /\ built = "DestList" /\ uargs = <<0, 0, 0>>

\* unsuccess_sme entries as the UnSme values that are written: the address
\* without its terminator and a 4-octet error code
UnsEntries ==
    {UnSme(ton, 0, a, c) : ton \in {0, 1}, a \in {<<>>, <<49>>},
                           c \in {<<0, 0, 0, 0>>, <<0, 0, 0, 17>>, <<1, 0, 0, 0>>}}

\* no_unsuccess = n and UnSmeList.Bytes() of n entries
InitUnsList ==
    /\ l = <<NoUnsuccess, UnsuccessSme>>
    /\ \E us \in SeqsUpTo(UnsEntries, MaxDests) :
          orig = [n \in SetOf(l) |->
                    IF n = NoUnsuccess THEN Fixed(Len(us)) ELSE UnSmeList(us)]
    /\ buf = Serialize(l, orig)
    /\ built = "UnsList" /\ uargs = <<0, 0, 0>>

InitRoundTrip ==
    /\ InitNew \/ InitPart \/ InitDestList \/ InitUnsList
    /\ DecodeEntry /\ VarIdle /\ UdhIdle /\ AuxIdle

SpecRoundTrip == InitRoundTrip /\ [][DecodeNext]_vars

----------------------------------------------------------------------------
(* Properties of the round trips *)

\* the kind of a field value, the two lists being one kind
KindOf(v) == IF v.kind \in {"DestSmeList", "UnSmeList"} THEN "list" ELSE v.kind

\* C1: for values built with pdufield.New and written in schema order, Decode
\* with the same schema yields a Map with exactly the same field names, each of
\* the same kind and with the same String() as the value that was written.
C1_FieldRoundTrip ==
    (built = "New" /\ pc # "loop")
    => /\ pc = "done"
       /\ DOMAIN f = DOMAIN orig
       /\ \A n \in DOMAIN orig :
             /\ KindOf(f[n]) = KindOf(orig[n])
             /\ BodyString(f[n]) = BodyString(orig[n])

\* C8 (as claimed): decoding the serialized fields of one concatenated part
\* yields a short_message equal to the part's payload and a UDH for which
\* IsConcatenated returns the part's ref, total and part.
C8_PartRoundTrip ==
    (built = "Part" /\ pc # "loop")
    => /\ pc = "done" /\ brk = NoField
       /\ ShortMessage \in DOMAIN f /\ f[ShortMessage].kind = "SM"
       /\ f[ShortMessage].Data = orig[ShortMessage].Data
       /\ GSMUserData \in DOMAIN f /\ f[GSMUserData].kind = "UDH"
       /\ IsConcatenated(f[GSMUserData].IE)
             = [panic |-> FALSE, concatenated |-> TRUE,
                ref |-> uargs[1], total |-> uargs[2], part |-> uargs[3]]

\* C8 (amended): decoding the serialized fields of one concatenated part reads
\* exactly the part's payload as short_message and stores it after the text
\* decoding that the part's data_coding selects (the payload itself when it
\* selects none), and yields a UDH for which IsConcatenated returns the part's
\* ref, total and part; the whole buffer is consumed.
C8_PartRoundTripDecoded ==
    (built = "Part" /\ pc # "loop")
    => /\ pc = "done" /\ brk = NoField /\ off = Len(buf)
       /\ ShortMessage \in DOMAIN f /\ f[ShortMessage].kind = "SM"
       /\ f[ShortMessage].Data
             = DecodeText(orig[DataCoding].Data, orig[ShortMessage].Data)
       /\ (orig[DataCoding].Data \notin {0, 3, 6, 8}
             => f[ShortMessage].Data = orig[ShortMessage].Data)
       /\ GSMUserData \in DOMAIN f /\ f[GSMUserData].kind = "UDH"
       /\ IsConcatenated(f[GSMUserData].IE)
             = [panic |-> FALSE, concatenated |-> TRUE,
                ref |-> uargs[1], total |-> uargs[2], part |-> uargs[3]]

\* C8 witness: a part with a 16-bit reference (U = 6) and a payload of the
\* largest part size, 152 octets, has been decoded to the end
C8_Witness ==
    /\ built = "Part" /\ pc = "done"
    /\ uargs[1] > 255 /\ f[UDHLength].Data = 6
    /\ Len(orig[ShortMessage].Data) = MaxGSM7ConcatenatedShortMessageLenEncoded
    /\ f[SMLength].Data = 159
    /\ Len(f[ShortMessage].Data) = MaxGSM7ConcatenatedShortMessageLenEncoded

\* C10: Decode of number_of_dests = n and n written entries (SME: flag, TON,
\* NPI, address; distribution list: flag, name) returns n entries whose flag
\* and address or list name are the ones written, and consumes the whole list.
C10_DestListLayout ==
    (built = "DestList" /\ pc # "loop")
    => /\ pc = "done" /\ brk = NoField
       /\ DestinationList \in DOMAIN f /\ f[DestinationList].kind = "DestSmeList"
       /\ LET got == f[DestinationList].Data
              want == orig[DestinationList].Data
          IN  /\ Len(got) = Len(want)
              /\ \A i \in 1..Len(want) :
                    /\ got[i].Flag = want[i].Flag
                    /\ VariableString(got[i].DestAddr) = want[i].DestAddr
       /\ off = Len(buf)

----------------------------------------------------------------------------
(* Specification SpecVariable: one Variable whose Data is a slice of at     *)
(* most MaxVarLen octets over a backing array with or without spare         *)
(* capacity, and at most MaxCalls calls of Bytes, Len and String on it      *)

VarOctets == {0, 1, 65}
\* what the backing array holds past len(v.Data)
VarSpare == {<<>>, <<0>>, <<7>>}

\* v.Data, the first dlen cells of its backing array
VData == SubSeq(arr, 1, dlen)
\* the octets a returned slice shows now
SliceOf(s) == IF s.view THEN SubSeq(arr, 1, s.n) ELSE s.own

\* append(v.Data, 0x00) is reached: Data is empty or does not end with 0x00
Appends == ~(dlen > 0 /\ arr[dlen] = 0)
\* the backing array after v.Bytes(): append stores the 0x00 in the array
\* when it has spare capacity, else in a new array
ArrayAfterBytes ==
    IF Appends /\ Len(arr) > dlen THEN [arr EXCEPT ![dlen + 1] = 0] ELSE arr
\* the slice v.Bytes() returns
SliceAfterBytes ==
    IF ~Appends THEN [view |-> TRUE, n |-> dlen, own |-> <<>>]
    ELSE IF Len(arr) > dlen THEN [view |-> TRUE, n |-> dlen + 1, own |-> <<>>]
    ELSE [view |-> FALSE, n |-> dlen + 1, own |-> VariableBytes(VData)]

InitVariable ==
    /\ \E d \in SeqsUpTo(VarOctets, MaxVarLen), sp \in VarSpare :
          /\ arr = d \o sp /\ dlen = Len(d) /\ data0 = d
    /\ vout = <<>> /\ vop = "none" /\ vlast = NoSlice /\ vprev = NoSlice /\ calls = 0
    /\ DecodeIdle /\ UdhIdle /\ uargs = <<0, 0, 0>> /\ AuxIdle

CallBytes ==
    /\ calls < MaxCalls
    /\ vout' = VariableBytes(VData)
    /\ arr' = ArrayAfterBytes
    /\ vprev' = vlast /\ vlast' = SliceAfterBytes
    /\ vop' = "Bytes" /\ calls' = calls + 1
    /\ UNCHANGED <<dlen, data0, decVars, udhVars, auxVars>>

\* Len() calls Bytes() and has its effect on the backing array
CallLen ==
    /\ calls < MaxCalls
    /\ vout' = VariableLen(VData)
    /\ arr' = ArrayAfterBytes
    /\ vop' = "Len" /\ calls' = calls + 1
    /\ UNCHANGED <<dlen, data0, vlast, vprev, decVars, udhVars, auxVars>>

CallString ==
    /\ calls < MaxCalls
    /\ vout' = VariableString(VData)
    /\ vop' = "String" /\ calls' = calls + 1
    /\ UNCHANGED <<arr, dlen, data0, vlast, vprev, decVars, udhVars, auxVars>>

VariableNext == CallBytes \/ CallLen \/ CallString

SpecVariable == InitVariable /\ [][VariableNext]_vars

\* d ends with the octet 0x00
Terminated(d) == Len(d) > 0 /\ d[Len(d)] = 0

\* C5: Bytes() is d when d is non-empty and ends with 0x00 and d followed by
\* exactly one 0x00 otherwise; Len() is the length of Bytes(); String() is d
\* without one trailing 0x00; every Bytes() returns the same octets as the one
\* before, whose slice still shows them; Data is left unchanged by every call.
C5_VariableSerialization ==
    LET want == IF Terminated(data0) THEN data0 ELSE data0 \o <<0>>
    IN  /\ VData = data0
        /\ vop = "Bytes" => vout = want
        /\ vop = "Len" => vout = Len(want)
        /\ vop = "String"
             => vout = IF Terminated(data0)
                       THEN SubSeq(data0, 1, Len(data0) - 1) ELSE data0
        /\ vlast # NoSlice => SliceOf(vlast) = want
        /\ vprev # NoSlice => SliceOf(vprev) = want /\ SliceOf(vprev) = SliceOf(vlast)

\* C5 witness: Bytes() has been called a second time on a non-empty Data that
\* does not end with 0x00 and whose backing array had room for the terminator
C5_Witness ==
    /\ vop = "Bytes" /\ vprev # NoSlice /\ vlast.view
    /\ data0 # <<>> /\ ~Terminated(data0)
    /\ vout = data0 \o <<0>>

----------------------------------------------------------------------------
(* Specification SpecUDH: a UDH is built, by NewUDHConcatenatedShortMessage *)
(* or from other information elements, and IsConcatenated is called on it   *)

UDHRefs == {0, 1, 254, 255, 256, 257, 4660, 65534, 65535}
UDHCounts == {0, 1, 2, 255, 256}

\* elements that are no concatenation element (IEI 0x00 needs length 3,
\* IEI 0x08 needs length 4), and two that are
OtherElements ==
    { UDHIE(UDHIEIConcatenatedShortMessage8Bit, 2, <<7, 1>>),
      UDHIE(UDHIEIConcatenatedShortMessage8Bit, 4, <<1, 2, 3, 1>>),
      UDHIE(UDHIEIConcatenatedShortMessage16Bit, 3, <<7, 2, 1>>),
      UDHIE(1, 3, <<7, 2, 1>>),
      UDHIE(36, 1, <<0>>) }
ConcatElements ==
    { UDHIE(UDHIEIConcatenatedShortMessage8Bit, 3, <<7, 2, 1>>),
      UDHIE(UDHIEIConcatenatedShortMessage16Bit, 4, <<1, 7, 3, 2>>) }
MaxElements == 2

\* ie is a concatenation element
IsConcatElement(ie) ==
    \/ ie.IEI = UDHIEIConcatenatedShortMessage8Bit /\ ie.IELength = 3
    \/ ie.IEI = UDHIEIConcatenatedShortMessage16Bit /\ ie.IELength = 4

InitUDH ==
    /\ upc = "start" /\ uargs = <<0, 0, 0>> /\ udh = UDH(<<>>)
    /\ uhow = "none" /\ isc = NotConcatenated
    /\ DecodeIdle /\ VarIdle /\ AuxIdle

BuildConcatenated ==
    /\ upc = "start"
    /\ \E ref \in UDHRefs, total \in UDHCounts, part \in UDHCounts :
          /\ uargs' = <<ref, total, part>>
          /\ udh' = NewUDHConcatenatedShortMessage(ref, total, part)
    /\ uhow' = "concat" /\ upc' = "built"
    /\ UNCHANGED <<isc, decVars, varVars, auxVars>>

BuildOther ==
    /\ upc = "start"
    /\ \E ies \in SeqsUpTo(OtherElements \cup ConcatElements, MaxElements) :
          udh' = UDH(ies)
    /\ uhow' = "other" /\ upc' = "built"
    /\ UNCHANGED <<uargs, isc, decVars, varVars, auxVars>>

CallIsConcatenated ==
    /\ upc = "built"
    /\ isc' = IsConcatenated(udh.IE)
    /\ upc' = "checked"
    /\ UNCHANGED <<uargs, udh, uhow, decVars, varVars, auxVars>>

UDHNext == BuildConcatenated \/ BuildOther \/ CallIsConcatenated

SpecUDH == InitUDH /\ [][UDHNext]_vars

\* C6: the element built for ref <= 0xFF has IEI 0x00, IELength 3 and IEData
\* {ref, total, part}; for a larger ref it has IEI 0x08, IELength 4 and IEData
\* {ref >> 8, ref & 0xFF, total, part} (total and part being octets); IELength
\* is the number of IEData octets and the UDH's Len() is IELength + 2.
C6_ConcatenatedElement ==
    uhow = "concat"
    => LET ie == udh.IE[1]
           ref == uargs[1]
           total == uargs[2]
           part == uargs[3]
           octets == total \in 0..255 /\ part \in 0..255
       IN  /\ Len(udh.IE) = 1
           /\ ref <= 255
                => /\ ie.IEI = 0 /\ ie.IELength = 3
                   /\ octets => ie.IEData = <<ref, total, part>>
           /\ ref > 255
                => /\ ie.IEI = 8 /\ ie.IELength = 4
                   /\ octets => ie.IEData = <<ref \div 256, ref % 256, total, part>>
           /\ ie.IELength = Len(ie.IEData)
           /\ \A i \in 1..Len(ie.IEData) : ie.IEData[i] \in 0..255
           /\ UDHLen(udh.IE) = ie.IELength + 2

\* C6 witness: the element for the largest reference has been built
C6_Witness ==
    /\ upc = "built" /\ uhow = "concat" /\ uargs = <<65535, 2, 1>>
    /\ udh.IE = <<UDHIE(8, 4, <<255, 255, 2, 1>>)>>

\* C7: IsConcatenated on the UDH built for ref, total, part (total and part in
\* 1..255) returns (true, ref, total, part); on a UDH that holds no
\* concatenation element it returns (false, 0, 1, 1).
C7_ConcatenationRoundTrip ==
    upc = "checked"
    => /\ (uhow = "concat" /\ uargs[2] \in 1..255 /\ uargs[3] \in 1..255)
            => isc = [panic |-> FALSE, concatenated |-> TRUE,
                      ref |-> uargs[1], total |-> uargs[2], part |-> uargs[3]]
       /\ (uhow = "other" /\ \A i \in 1..Len(udh.IE) : ~IsConcatElement(udh.IE[i]))
            => isc = [panic |-> FALSE, concatenated |-> FALSE,
                      ref |-> 0, total |-> 1, part |-> 1]

\* C7 witness: IsConcatenated has returned a 16-bit reference with a non-zero
\* high octet
C7_Witness ==
    /\ upc = "checked" /\ uhow = "concat"
    /\ uargs = <<4660, 255, 2>>
    /\ isc.concatenated /\ isc.ref = 4660 /\ isc.total = 255 /\ isc.part = 2

----------------------------------------------------------------------------
(* The unsuccess_sme list, written by UnSmeList.Bytes and decoded *)

\* C11: every unsuccess_sme entry occupies 1 + 1 + len(address C-string) + 4
\* octets as written by UnSmeList.Bytes(), and decoding the written list with
\* no_unsuccess = n returns n entries with the same TON, NPI, address and
\* error code and consumes all the octets.
C11_UnsuccessLayout ==
    (built = "UnsList" /\ pc # "loop")
    => LET want == orig[UnsuccessSme].Data
       IN  /\ pc = "done" /\ brk = NoField
           /\ \A i \in 1..Len(want) :
                 Len(UnSmeBytes(want[i])) = 1 + 1 + (Len(want[i].DestAddr) + 1) + 4
           /\ UnsuccessSme \in DOMAIN f /\ f[UnsuccessSme].kind = "UnSmeList"
           /\ LET got == f[UnsuccessSme].Data
              IN  /\ Len(got) = Len(want)
                  /\ \A i \in 1..Len(want) :
                        /\ got[i].Ton = want[i].Ton /\ got[i].Npi = want[i].Npi
                        /\ VariableString(got[i].DestAddr) = want[i].DestAddr
                        /\ got[i].ErrCode = want[i].ErrCode
           /\ off = Len(buf)

----------------------------------------------------------------------------
(* Specification SpecSegment: one long message is cut into parts, as in the *)
(* loop of TestLongMessageEncode                                            *)

MaxGSM7ShortMessageLenEncoded == 160
MaxUCS2ShortMessageLenEncoded == 140

\* a payload of n octets whose content depends on the position
Letters(n) == [n |-> n, k |-> 0]
\* the same with the escape sequence 1B 65 at the positions k, k + 1
WithEscape(n, k) == [n |-> n, k |-> k]
\* the octet at position i (from 1) of the payload P, and P as a sequence
RawAt(P, i) ==
    IF P.k > 0 /\ i = P.k THEN 27
    ELSE IF P.k > 0 /\ i = P.k + 1 THEN 101
    ELSE 65 + (i % 26)
RawLen(P) == P.n
RawSeq(P) == [i \in 1..P.n |-> RawAt(P, i)]

SegTexts == {"GSM7", "GSM7Packed", "UCS2", "Raw"}
SegLengths ==
    [GSM7 |-> {0, 10, 161, 200, 304, 305, 457},
     GSM7Packed |-> {141, 264, 265},
     UCS2 |-> {142, 264, 266, 33662},
     Raw |-> {141, 266, 267, 400}]
EscapeAt == {1, 100, 151, 152, 153, 303, 304}
\* rand.IntN(0xFFFF) yields 0 .. 0xFFFE
SegRefs == {0, 255, 256, 65534}

SegPayloads(t) ==
    {Letters(n) : n \in SegLengths[t]}
        \cup IF t = "GSM7"
             THEN {WithEscape(n, k) : n \in {161, 305}, k \in EscapeAt}
             ELSE {}

InitSegment ==
    /\ spc = "start"
    /\ smText \in SegTexts
    /\ rawMsg \in SegPayloads(smText)
    /\ maxLen = 0 /\ countParts = 0 /\ smRef = 0 /\ parti = 0 /\ smParts = <<>>
    /\ DecodeIdle /\ VarIdle /\ UdhIdle /\ uargs = <<0, 0, 0>> /\ SesIdle

\* maxLen := 133; switch sm.Text.(type) { ... }
PartMax(t) ==
    CASE t = "GSM7" -> MaxGSM7ConcatenatedShortMessageLenEncoded
      [] t = "GSM7Packed" -> MaxUCS2ConcatenatedShortMessageLenEncoded
      [] t = "UCS2" -> MaxUCS2ConcatenatedShortMessageLenEncoded
      [] OTHER -> MaxConcatenatedShortMessageLenEncoded

\* int((len(rawMsg)-1)/maxLen) + 1, the division truncating toward zero
CountParts(n, m) == IF n = 0 THEN 1 ELSE ((n - 1) \div m) + 1

\* the part i + 1: its UDH, the slice of rawMsg that is its payload (the
\* octets lo + 1 .. hi of rawMsg), and the fields set from them
NewPart(i) ==
    LET u == NewUDHConcatenatedShortMessage(smRef, countParts, i + 1)
        lo == i * maxLen
        hi == IF i # countParts - 1 THEN (i + 1) * maxLen ELSE RawLen(rawMsg)
    IN  [ESMClass |-> ESMClassUDHIndicator,
         UDHLength |-> Byte(UDHLen(u.IE)),
         GSMUserData |-> u,
         lo |-> lo, hi |-> hi,
         SMLength |-> Byte((hi - lo) + UDHLen(u.IE) + 1)]

\* the payload of a part, a slice of rawMsg
PartPayload(pt) == [j \in 1..(pt.hi - pt.lo) |-> RawAt(rawMsg, pt.lo + j)]

SegStart ==
    /\ spc = "start"
    /\ maxLen' = PartMax(smText)
    /\ countParts' = CountParts(RawLen(rawMsg), PartMax(smText))
    /\ smRef' \in SegRefs
    /\ spc' = "loop"
    /\ UNCHANGED <<smText, rawMsg, parti, smParts, decVars, varVars, udhVars, sesVars>>

EmitPart ==
    /\ spc = "loop" /\ parti < countParts
    /\ smParts' = Append(smParts, NewPart(parti))
    /\ parti' = parti + 1
    /\ UNCHANGED <<spc, smText, rawMsg, maxLen, countParts, smRef, decVars, varVars,
                   udhVars, sesVars>>

SegDone ==
    /\ spc = "loop" /\ ~(parti < countParts)
    /\ spc' = "done"
    /\ UNCHANGED <<smText, rawMsg, maxLen, countParts, smRef, parti, smParts,
                   decVars, varVars, udhVars, sesVars>>

SegmentNext == SegStart \/ EmitPart \/ SegDone

SpecSegment == InitSegment /\ [][SegmentNext]_vars

\* the single-message maximum of a codec
SingleMax(t) ==
    IF t = "GSM7" THEN MaxGSM7ShortMessageLenEncoded ELSE MaxUCS2ShortMessageLenEncoded

\* ceil(n / m)
CeilDiv(n, m) == (n + m - 1) \div m

\* C12: a payload P longer than the single-message maximum is emitted as
\* total = ceil(len(P)/M) parts, M the codec's part maximum; part i carries
\* the number i, the message's ref and total; every payload has at most M
\* octets and sm_length = U + 1 + len(payload) fits in one octet; the payloads
\* in part order concatenate to P.
C12_Segmentation ==
    (spc = "done" /\ RawLen(rawMsg) > SingleMax(smText))
    => LET M == PartMax(smText)
           total == CeilDiv(RawLen(rawMsg), M)
       IN  /\ Len(smParts) = total
           /\ \A i \in 1..Len(smParts) :
                 LET pt == smParts[i]
                     U == UDHLen(pt.GSMUserData.IE)
                 IN  /\ IsConcatenated(pt.GSMUserData.IE)
                           = [panic |-> FALSE, concatenated |-> TRUE,
                              ref |-> smRef, total |-> total, part |-> i]
                     /\ pt.hi - pt.lo <= M
                     /\ U + 1 + (pt.hi - pt.lo) <= 255
                     /\ pt.SMLength = U + 1 + (pt.hi - pt.lo)
           /\ Flatten([i \in 1..Len(smParts) |-> PartPayload(smParts[i])]) = RawSeq(rawMsg)

\* the octet at position k of P starts an escape sequence: it is 0x1B and is
\* not itself the extension octet of an escape before it
EscapeStart(P, k) ==
    /\ RawAt(P, k) = 27
    /\ LET before == {j \in 1..(k - 1) : \A m \in j..(k - 1) : RawAt(P, m) = 27}
       IN  Cardinality(before) % 2 = 0

\* C13: when a GSM7 (unpacked) payload is cut into parts, no part ends with
\* the 0x1B of an escape sequence whose extension octet starts the next part.
C13_NoSplitEscape ==
    (spc = "done" /\ smText = "GSM7")
    => \A i \in 1..(Len(smParts) - 1) :
          ~(smParts[i].hi > smParts[i].lo /\ EscapeStart(rawMsg, smParts[i].hi))

----------------------------------------------------------------------------
(* Specification SpecSession: a bound session and the calls of Submit and   *)
(* SubmitLongMsg made on it concurrently, with the server, the reader task, *)
(* response timeouts and Close                                              *)

Callers == {1, 2, 3}
\* sequence numbers wrap to 1 after 0x7FFFFFFF
MaxSeq == 2147483647
\* the sessions checked: WindowSize, the sequence number allocated last
\* before the calls, and the number of requests of each call (1 for a Submit,
\* 2 for a SubmitLongMsg of two parts, 0 for no call)
SessionConfigs ==
    { [window |-> 2, seq |-> 0, totals |-> <<1, 1, 1>>],
      [window |-> 1, seq |-> 0, totals |-> <<2, 1, 0>>],
      [window |-> 2, seq |-> 0, totals |-> <<2, 1, 0>>],
      [window |-> 0, seq |-> 0, totals |-> <<1, 1, 0>>],
      [window |-> 0, seq |-> MaxSeq - 1, totals |-> <<2, 1, 0>>] }
NoErr == "nil"

EmptyBox == [kind |-> "empty", seq |-> 0, req |-> 0]
ErrBox == [kind |-> "ErrNotConnected", seq |-> 0, req |-> 0]
Response(s, k) == [kind |-> "resp", seq |-> s, req |-> k]

InitSession ==
    /\ status = "Connected"
    /\ \E cf \in SessionConfigs :
          /\ window = cf.window /\ atomicSeq = cf.seq
          /\ ctotal = [c \in Callers |-> cf.totals[c]]
    /\ inflight = {} /\ wire = <<>> /\ answered = {} /\ rwire = <<>> /\ rpos = 0
    /\ cpc = [c \in Callers |-> IF ctotal[c] = 0 THEN "done" ELSE "check"]
    /\ cseqs = [c \in Callers |-> <<>>]
    /\ cbox = [c \in Callers |-> [i \in 1..ctotal[c] |-> EmptyBox]]
    /\ cresolved = [c \in Callers |-> [i \in 1..ctotal[c] |-> 0]]
    /\ cres = [c \in Callers |-> <<>>]
    /\ cerr = [c \in Callers |-> NoErr]
    /\ DecodeIdle /\ VarIdle /\ UdhIdle /\ uargs = <<0, 0, 0>> /\ SegIdle

\* step 1: the status allows a submit
StatusOK(st) == st = "Connected"
\* step 3: s = (atomic_seq += 1), wrapping to 1 after 0x7FFFFFFF
NextSeq(s) == IF s >= MaxSeq THEN 1 ELSE s + 1
\* the window test admitting one request more
WindowFullAbove(w, n) == w > 0 /\ n > w
\* step 4: the window is full
WindowFull(w, n) == w > 0 /\ n >= w
\* step 4: insert s -> waiter in the in-flight table
Insert(t, e) == {x \in t : x.seq # e.seq} \cup {e}
\* dispatch to a waiter whatever its sequence number
DispatchTargetsAny(t, s) == t
\* dispatch: the waiter whose sequence number matches the response
DispatchTargets(t, s) == {e \in t : e.seq = s}
\* Close leaving the waiters unresolved
ClosedBoxKept(b) == b
\* Close: what a waiter is resolved with
ClosedBox(b) == ErrBox

\* the request of call c being submitted, and its sequence number
CurPart(c) == Len(cseqs[c])
CurSeq(c) == cseqs[c][Len(cseqs[c])]

\* the call fails with e; its remaining waiters are cancelled
Fail(c, e) ==
    /\ cerr' = [cerr EXCEPT ![c] = e]
    /\ cpc' = [cpc EXCEPT ![c] = "done"]
    /\ inflight' = {x \in inflight : x.c # c}

StatusCheck(c) ==
    /\ cpc[c] = "check"
    /\ IF StatusOK(status)
       THEN cpc' = [cpc EXCEPT ![c] = "seq"] /\ UNCHANGED <<cerr, inflight>>
       ELSE Fail(c, "ErrNotConnected")
    /\ UNCHANGED <<status, window, atomicSeq, wire, answered, rwire, rpos, ctotal, cseqs,
                   cbox, cresolved, cres, decVars, varVars, udhVars, segVars>>

AllocSeq(c) ==
    /\ cpc[c] = "seq"
    /\ atomicSeq' = NextSeq(atomicSeq)
    /\ cseqs' = [cseqs EXCEPT ![c] = Append(@, NextSeq(atomicSeq))]
    /\ cpc' = [cpc EXCEPT ![c] = "reg"]
    /\ UNCHANGED <<status, window, inflight, wire, answered, rwire, rpos, ctotal, cbox,
                   cresolved, cres, cerr, decVars, varVars, udhVars, segVars>>

Register(c) ==
    /\ cpc[c] = "reg"
    /\ IF WindowFull(window, Cardinality(inflight))
       THEN Fail(c, "ErrMaxWindowSize")
       ELSE /\ inflight' = Insert(inflight, [seq |-> CurSeq(c), c |-> c, i |-> CurPart(c)])
            /\ cpc' = [cpc EXCEPT ![c] = "write"]
            /\ UNCHANGED cerr
    /\ UNCHANGED <<status, window, atomicSeq, wire, answered, rwire, rpos, ctotal, cseqs,
                   cbox, cresolved, cres, decVars, varVars, udhVars, segVars>>

\* after a write the call sends its next request, if it has one, or waits
AfterWrite(c) == IF CurPart(c) < ctotal[c] THEN {"check", "wait"} ELSE {"wait"}

Write(c) ==
    /\ cpc[c] = "write"
    /\ IF status = "Connected"
       THEN /\ wire' = Append(wire, [seq |-> CurSeq(c), c |-> c, i |-> CurPart(c)])
            /\ \E nxt \in AfterWrite(c) : cpc' = [cpc EXCEPT ![c] = nxt]
            /\ UNCHANGED <<cerr, inflight>>
       ELSE Fail(c, "ErrNotConnected") /\ UNCHANGED wire
    /\ UNCHANGED <<status, window, atomicSeq, answered, rwire, rpos, ctotal, cseqs,
                   cbox, cresolved, cres, decVars, varVars, udhVars, segVars>>

Await(c) ==
    /\ cpc[c] = "wait"
    /\ LET j == Len(cres[c]) + 1
           b == cbox[c][j]
       IN  /\ b.kind # "empty"
           /\ IF b.kind = "resp"
              THEN /\ cres' = [cres EXCEPT ![c] = Append(@, b)]
                   /\ cpc' = [cpc EXCEPT ![c] =
                                IF j = ctotal[c] THEN "done"
                                ELSE IF j = CurPart(c) THEN "check" ELSE "wait"]
                   /\ UNCHANGED <<cerr, inflight>>
              ELSE Fail(c, "ErrNotConnected") /\ UNCHANGED cres
    /\ UNCHANGED <<status, window, atomicSeq, wire, answered, rwire, rpos, ctotal, cseqs,
                   cbox, cresolved, decVars, varVars, udhVars, segVars>>

Timeout(c) ==
    /\ cpc[c] = "wait"
    /\ cbox[c][Len(cres[c]) + 1].kind = "empty"
    /\ Fail(c, "ErrTimeout")
    /\ UNCHANGED <<status, window, atomicSeq, wire, answered, rwire, rpos, ctotal, cseqs,
                   cbox, cresolved, cres, decVars, varVars, udhVars, segVars>>

\* the server answers a request it has received, in any order
ServerAnswer ==
    /\ \E k \in (1..Len(wire)) \ answered :
          /\ rwire' = Append(rwire, Response(wire[k].seq, k))
          /\ answered' = answered \cup {k}
    /\ UNCHANGED <<status, window, atomicSeq, inflight, wire, rpos, cpc, ctotal, cseqs,
                   cbox, cresolved, cres, cerr, decVars, varVars, udhVars, segVars>>

\* the reader task dispatches the next response
Dispatch ==
    /\ status = "Connected" /\ rpos < Len(rwire)
    /\ rpos' = rpos + 1
    /\ LET r == rwire[rpos + 1]
           to == DispatchTargets(inflight, r.seq)
       IN  IF to = {} THEN UNCHANGED <<inflight, cbox, cresolved>>
           ELSE \E e \in to :
                   /\ cbox' = [cbox EXCEPT ![e.c][e.i] = r]
                   /\ cresolved' = [cresolved EXCEPT ![e.c][e.i] = @ + 1]
                   /\ inflight' = inflight \ {e}
    /\ UNCHANGED <<status, window, atomicSeq, wire, answered, rwire, cpc, ctotal, cseqs,
                   cres, cerr, decVars, varVars, udhVars, segVars>>

\* Close resolves all waiters and releases the table
Close ==
    /\ status = "Connected"
    /\ status' = "Closed"
    /\ cbox' = [c \in Callers |-> [i \in 1..ctotal[c] |->
                  IF \E e \in inflight : e.c = c /\ e.i = i
                  THEN ClosedBox(cbox[c][i]) ELSE cbox[c][i]]]
    /\ cresolved' = [c \in Callers |-> [i \in 1..ctotal[c] |->
                  IF \E e \in inflight : e.c = c /\ e.i = i
                  THEN cresolved[c][i] + 1 ELSE cresolved[c][i]]]
    /\ inflight' = {}
    /\ UNCHANGED <<window, atomicSeq, wire, answered, rwire, rpos, cpc, ctotal, cseqs,
                   cres, cerr, decVars, varVars, udhVars, segVars>>

SessionNext ==
    \/ \E c \in Callers : StatusCheck(c)
    \/ \E c \in Callers : AllocSeq(c)
    \/ \E c \in Callers : Register(c)
    \/ \E c \in Callers : Write(c)
    \/ \E c \in Callers : Await(c)
    \/ \E c \in Callers : Timeout(c)
    \/ ServerAnswer
    \/ Dispatch
    \/ Close

SpecSession == InitSession /\ [][SessionNext]_vars

----------------------------------------------------------------------------
(* Properties of the session *)

\* the requests written that are neither answered, timed out nor cancelled
Unresolved ==
    {k \in 1..Len(wire) : /\ cbox[wire[k].c][wire[k].i].kind = "empty"
                          /\ cpc[wire[k].c] # "done"}

\* at most WindowSize requests are unresolved; a call rejected with
\* ErrMaxWindowSize left nothing on the wire or in the table; of three
\* concurrent submits with WindowSize 2 and no response yet, one is rejected
C14_Bounded ==
    /\ (status = "Connected" /\ window > 0)
          => Cardinality(inflight) <= window /\ Cardinality(Unresolved) <= window
    /\ \A c \in Callers :
          cerr[c] = "ErrMaxWindowSize"
          => /\ \A k \in 1..Len(wire) : ~(wire[k].c = c /\ wire[k].i = CurPart(c))
             /\ \A e \in inflight : e.c # c
    /\ (/\ window = 2 /\ \A c \in Callers : ctotal[c] = 1
        /\ status = "Connected" /\ answered = {}
        /\ \A c \in Callers : cpc[c] \in {"write", "wait", "done"} /\ cerr[c] # "ErrTimeout")
          => Cardinality({c \in Callers : cerr[c] = "ErrMaxWindowSize"}) = 1

\* the window check of a call: rejected at once exactly when WindowSize > 0
\* requests or more are in flight, else registered
C14_Check ==
    \A c \in Callers :
       (cpc[c] = "reg" /\ cpc'[c] # "reg")
       => IF window > 0 /\ Cardinality(inflight) >= window
          THEN /\ cerr'[c] = "ErrMaxWindowSize" /\ cpc'[c] = "done"
               /\ wire' = wire /\ \A e \in inflight' : e.c # c
          ELSE /\ cerr'[c] = NoErr
               /\ [seq |-> CurSeq(c), c |-> c, i |-> CurPart(c)] \in inflight'

\* C14: with WindowSize = W > 0 at most W requests are ever unresolved; a
\* Submit whose window check finds W requests in flight fails at once with
\* ErrMaxWindowSize without being written or registered, one that finds fewer
\* is not rejected; with W = 2 and three concurrent submits against a server
\* that has not answered, exactly one fails with ErrMaxWindowSize.
C14_WindowEnforcement == []C14_Bounded /\ [][C14_Check]_vars

\* C14 witness: with W = 2 two submits are in flight and unanswered and the
\* third has been rejected
C14_Witness ==
    /\ window = 2 /\ status = "Connected" /\ Cardinality(inflight) = 2
    /\ Len(wire) = 2 /\ answered = {}
    /\ Cardinality({c \in Callers : cerr[c] = "ErrMaxWindowSize"}) = 1

\* C15: every in-flight sequence number has one waiter, the waiter of the
\* request with that number; a waiter is resolved at most once; a response is
\* delivered to the waiter of the request with its sequence number; one frame
\* is written per part; a call that succeeds returns as many results as it has
\* parts, the i-th being the response to the i-th part's request.
C15_ResponseCorrelation ==
    /\ \A e1, e2 \in inflight : e1.seq = e2.seq => e1 = e2
    /\ \A e \in inflight : e.i <= Len(cseqs[e.c]) /\ cseqs[e.c][e.i] = e.seq
    /\ \A c \in Callers : \A i \in 1..ctotal[c] :
          /\ cresolved[c][i] <= 1
          /\ cbox[c][i].kind = "resp"
                => /\ cbox[c][i].seq = cseqs[c][i]
                   /\ wire[cbox[c][i].req] = [seq |-> cseqs[c][i], c |-> c, i |-> i]
    /\ \A k1, k2 \in 1..Len(wire) :
          (wire[k1].c = wire[k2].c /\ wire[k1].i = wire[k2].i) => k1 = k2
    /\ \A c \in Callers :
          (ctotal[c] > 0 /\ cpc[c] = "done" /\ cerr[c] = NoErr)
          => /\ Len(cres[c]) = ctotal[c]
             /\ Cardinality({k \in 1..Len(wire) : wire[k].c = c}) = ctotal[c]
             /\ \A i \in 1..ctotal[c] :
                   /\ cres[c][i].seq = cseqs[c][i]
                   /\ wire[cres[c][i].req] = [seq |-> cseqs[c][i], c |-> c, i |-> i]

\* C15 witness: a long message of two parts has returned its two results, the
\* sequence numbers having wrapped and the response to part 2 having arrived
\* before the response to part 1
C15_Witness ==
    /\ ctotal[1] = 2 /\ cpc[1] = "done" /\ cerr[1] = NoErr /\ Len(cres[1]) = 2
    /\ cseqs[1][1] > cseqs[1][2]
    /\ Len(rwire) >= 2 /\ rwire[1].seq = cseqs[1][2]

\* nothing is written on a closed session; a submit that finds the session
\* closed fails with ErrNotConnected; Close resolves every in-flight waiter
\* with ErrNotConnected
C16_Step ==
    /\ status = "Closed" => wire' = wire
    /\ \A c \in Callers :
          (status = "Closed" /\ cpc[c] = "check" /\ cpc'[c] # "check")
          => cpc'[c] = "done" /\ cerr'[c] = "ErrNotConnected"
    /\ (status = "Connected" /\ status' = "Closed")
          => \A e \in inflight : cbox'[e.c][e.i].kind = "ErrNotConnected"

\* a Submit whose request was in flight when the session was closed has
\* returned ErrNotConnected if it has returned
C16_Returned ==
    \A c \in Callers :
       (ctotal[c] = 1 /\ cpc[c] = "done" /\ cbox[c][1].kind = "ErrNotConnected")
       => cerr[c] = "ErrNotConnected"

\* C16: after the session was closed every later Submit returns
\* ErrNotConnected and writes nothing, and a Submit that was in flight when the
\* session was closed returns ErrNotConnected.
C16_NotConnected == []C16_Returned /\ [][C16_Step]_vars

\* C16 witness: on the closed session one call that was in flight at the close
\* and one that started after it have both returned ErrNotConnected
C16_Witness ==
    /\ status = "Closed"
    /\ \E c1, c2 \in Callers :
          /\ c1 # c2
          /\ ctotal[c1] = 1 /\ cpc[c1] = "done" /\ cbox[c1][1].kind = "ErrNotConnected"
          /\ cerr[c1] = "ErrNotConnected"
          /\ ctotal[c2] = 1 /\ cpc[c2] = "done" /\ cseqs[c2] = <<>>
          /\ cerr[c2] = "ErrNotConnected"

====
